---- MODULE Spec2Model ----
(***************************************************************************)
(* The user resolver of hackatalk-server (src/src/resolvers/user.ts) as a  *)
(* state machine: the account table behind models.User, the store calls    *)
(* the resolvers start without awaiting, the updateProfile calls that are  *)
(* suspended at an await, the pubsub subscriptions and the results handed  *)
(* back to the callers.                                                    *)
(*                                                                         *)
(* The repository carries the resolver in more than one copy.  The model   *)
(* follows src/src/resolvers/user.ts; the updateProfile of the copy in     *)
(* src/unnamed/part_002 (the one built on udpateUser) differs from it and  *)
(* is modelled next to it as updateProfile_udpateUser.                     *)
(***************************************************************************)
EXTENDS Naturals, Sequences, FiniteSets, TLC

VARIABLES
  accounts,    \* rows of the User table, accounts[i].id = i
  inflight,    \* store calls started by a resolver and not awaited
  calls,       \* updateProfile calls suspended at an await
  ncalls,      \* number of resolver invocations so far
  responses,   \* what each finished invocation returned or threw
  subs,        \* subscriptions opened on the pubsub
  published    \* every pubsub.publish so far, in order (history)

vars == <<accounts, inflight, calls, ncalls, responses, subs, published>>

---------------------------------------------------------------------------
(* Bounds *)

MaxCalls == 2
MaxSubs == 1
Emails == {"a@x.com"}
NativeIds == {"n1"}
Names == {"New"}

---------------------------------------------------------------------------
(* Constants of the resolver *)

USER_ADDED == "USER_ADDED"
USER_UPDATED == "USER_UPDATED"
SOCIAL_NAME == [GOOGLE |-> "google", FACEBOOK |-> "facebook"]

ErrAlreadySignedIn == "Email for current user is already signed in"
ErrFailedToSignUp == "Failed to sign up."
ErrOwnProfile == "User can update his or her own profile"
ErrNotLoggedIn == "User is not logged in"
ErrTypeError == "Cannot read property 'id' of null"

---------------------------------------------------------------------------
(* Rows and JavaScript values.  "" stands for null/undefined in a string   *)
(* column, id 0 for "no row".                                              *)

NoRow == [id |-> 0, email |-> "", social |-> "", password |-> "",
          name |-> "", verified |-> "false"]

JsNull == [t |-> "null", row |-> NoRow, n |-> 0, of |-> ""]
JsRow(r) == [t |-> "row", row |-> r, n |-> 0, of |-> ""]
\* the array [affectedCount] that Model.update resolves to
JsCount(k) == [t |-> "count", row |-> NoRow, n |-> k, of |-> ""]
\* the array [row, created] that Model.findOrCreate resolves to
JsPair(r, created) == [t |-> "pair", row |-> r, n |-> IF created THEN 1 ELSE 0, of |-> ""]
\* the array of rows that Model.findAll resolves to
JsRows(rs) == [t |-> "rows", row |-> NoRow, n |-> Len(rs), of |-> "", rows |-> rs]
\* a pending promise: an object, whatever it will resolve to
JsPromise(v) == [t |-> "promise", row |-> v.row, n |-> v.n, of |-> v.t]

\* JavaScript truthiness of a value / of a string
Truthy(v) == v.t # "null"
TruthyStr(s) == s # ""

\* v[0], v[1] and v.id as JavaScript evaluates them; "undefined" when the
\* value has no such property
Index0(v) == IF v.t = "pair" THEN JsRow(v.row) ELSE JsNull
Index1(v) == IF v.t = "pair" THEN (IF v.n = 1 THEN "true" ELSE "false")
             ELSE "undefined"
PropId(v) == IF v.t = "row" THEN v.row.id ELSE 0

SocialKey(socialName, social) == socialName \o "_" \o social

\* social LIKE '<prefix>%' on keys of the form <provider>_<native id>
Like(social, prefix) ==
  \E p \in {SOCIAL_NAME.GOOGLE, SOCIAL_NAME.FACEBOOK} : \E n \in NativeIds :
     /\ social = SocialKey(p, n)
     /\ p = prefix

---------------------------------------------------------------------------
(* The store (models.User)                                                 *)

Ids == 1..Len(accounts)

\* where-clause: email = e (if e given), social NOT LIKE 'p%' (if p given),
\* id = i (if i given).  NOT LIKE is never true of a NULL social.
Where(e, p, i) == [email |-> e, notLike |-> p, id |-> i]

Matches(r, w) ==
  /\ (w.id # 0 => r.id = w.id)
  /\ (w.email # "*" => r.email = w.email)
  /\ (w.notLike # "" => (r.social # "" /\ ~Like(r.social, w.notLike)))

\* what a findOne resolves to when the query runs now
FindOneNow(w) ==
  IF \E i \in Ids : Matches(accounts[i], w)
  THEN JsRow(accounts[CHOOSE i \in Ids :
                 /\ Matches(accounts[i], w)
                 /\ \A j \in Ids : Matches(accounts[j], w) => i <= j])
  ELSE JsNull

\* User.findOne(...) as the caller sees it before awaiting: a promise
User_findOne(w) == JsPromise(FindOneNow(w))

\* await p
Await(p) == [t |-> p.of, row |-> p.row, n |-> p.n, of |-> ""]

\* an update that writes the whole row: columns not in values are reset
ApplyValues_replace(r, values) ==
  [f \in DOMAIN r |-> IF f = "id" THEN r[f]
                      ELSE IF f \in DOMAIN values THEN values[f] ELSE NoRow[f]]

\* Model.update(values, {where: {id}}): sets the columns named in values
\* that are columns of the table, on the rows matching the where-clause
ApplyValues(r, values) ==
  [f \in DOMAIN r |-> IF f \in DOMAIN values /\ f # "id" THEN values[f] ELSE r[f]]

User_update(accts, values, id) ==
  [i \in 1..Len(accts) |-> IF accts[i].id = id THEN ApplyValues(accts[i], values)
                           ELSE accts[i]]

AffectedCount(accts, id) == Cardinality({i \in 1..Len(accts) : accts[i].id = id})

\* Model.findOrCreate({where: {social: key}, defaults}): atomic in the store
User_findOrCreate(accts, key, defaults) ==
  IF \E i \in 1..Len(accts) : accts[i].social = key
  THEN accts
  ELSE Append(accts, [defaults EXCEPT !.id = Len(accts) + 1])

\* Model.create(values): a new row with a generated id
User_create(accts, values) == Append(accts, [values EXCEPT !.id = Len(accts) + 1])

---------------------------------------------------------------------------
(* Helpers of the resolver                                                 *)

\* hasUser: !user || (user && user[1] === false)
hasUser(user) == (~Truthy(user)) \/ (Truthy(user) /\ Index1(user) = "false")

\* isSignedIn with the findOne awaited
isSignedIn_awaited(user, queryOptions) ==
  LET emailUser == Await(User_findOne(queryOptions))
  IN IF Truthy(emailUser) THEN TRUE ELSE FALSE

\* isSignedIn answering "no" whatever the store holds
isSignedIn_never(user, queryOptions) == FALSE

\* isSignedIn: the findOne is not awaited, emailUser is the promise
isSignedIn(user, queryOptions) ==
  LET emailUser == User_findOne(queryOptions)
  IN IF Truthy(emailUser) THEN TRUE ELSE FALSE

isSignedInBySocial(socialUser, socialName) ==
  isSignedIn(socialUser, Where(socialUser.email, socialName, 0))

\* the row handed to findOrCreate as defaults
SocialDefaults(socialUser, socialName) ==
  [id |-> 0,
   email |-> socialUser.email,
   social |-> SocialKey(socialName, socialUser.social),
   password |-> "",
   name |-> socialUser.name,
   verified |-> IF TruthyStr(socialUser.email) THEN socialUser.email ELSE "false"]

\* getOrSignUp: foundUser is the promise findOrCreate returned, not awaited
\* (the store resolves it later, see User_findOrCreate_run)
getOrSignUp(socialUser, socialName) ==
  LET foundUser == JsPromise(JsPair(NoRow, FALSE))
  IN IF hasUser(foundUser) THEN Index0(foundUser) ELSE JsNull

\* a token for the first account, whoever signed in
signIn_first(userId) == [userId |-> 1, role |-> "User"]

\* signIn: jwt.sign({userId, role: Role.User}, appSecret)
signIn(userId) == [userId |-> userId, role |-> "User"]
NoToken == [userId |-> 0, role |-> ""]

\* encryptPassword: opaque one-way function
encryptPassword(password) == "hash(" \o password \o ")"

\* new Error(err): the message becomes String(err) = "<name>: <message>"
WrapError(name, message) == name \o ": " \o message

---------------------------------------------------------------------------
(* Inputs                                                                  *)

SignUpInputs == [email : Emails, password : {"p"}, name : {"A"}]
SocialInputs == [social : NativeIds, email : Emails \cup {""}, name : {"A"}]
\* the same identities with another profile
SocialInputsRenamed == [social : NativeIds, email : {""}, name : {"B"}]
\* args.user of updateProfile: the target id and the patched name
Patches(ids) == [id : ids, name : Names]

\* one store call in flight
FindOrCreateOp(c, key, defaults) ==
  [kind |-> "findOrCreate", call |-> c, key |-> key, defaults |-> defaults,
   id |-> 0, values |-> [user |-> [id |-> 0, name |-> ""]]]
UpdateOp(c, id, values) ==
  [kind |-> "update", call |-> c, key |-> "", defaults |-> NoRow,
   id |-> id, values |-> values]

\* what a finished invocation handed to its caller
Response(c, op, ok, err, ret, token, input) ==
  [call |-> c, op |-> op, ok |-> ok, err |-> err, ret |-> ret,
   token |-> token, input |-> input]

\* the input of an invocation, with what the store held when it arrived:
\* whether an account has the email, the social keys of those that have it,
\* whether an account has the social key
Input(email, key, caller, target, name) ==
  [email |-> email, key |-> key, caller |-> caller, target |-> target,
   name |-> name,
   emailHeld |-> \E i \in Ids : email # "" /\ accounts[i].email = email,
   heldBy |-> {accounts[i].social : i \in {j \in Ids : email # "" /\ accounts[j].email = email}},
   keyHeld |-> \E i \in Ids : key # "" /\ accounts[i].social = key]

---------------------------------------------------------------------------
(* pubsub                                                                  *)

Payload(key, body) == [key |-> key, body |-> body]
Event(topic, payload, c) ==
  [topic |-> topic, payload |-> payload, call |-> c, seq |-> Len(published) + 1]

\* filter of userUpdated: payload.userUpdated.id === variables.id; a payload
\* without the key userUpdated makes the filter throw and nothing is delivered
userUpdatedFilter(payload, variables) ==
  /\ payload.key = "userUpdated"
  /\ PropId(payload.body) = variables.id

\* the filter of userUpdated applied to every subscription
Passes_filtered(sub, payload) ==
  userUpdatedFilter(payload, [id |-> sub.id])

Passes(sub, payload) ==
  IF sub.topic = USER_UPDATED THEN userUpdatedFilter(payload, [id |-> sub.id])
  ELSE TRUE

\* pubsub.publish(topic, payload): to every subscription registered now
pubsub_publish(ss, ev) ==
  [i \in 1..Len(ss) |->
     IF ss[i].active /\ ss[i].topic = ev.topic /\ Passes(ss[i], ev.payload)
     THEN [ss[i] EXCEPT !.queue = Append(@, ev)]
     ELSE ss[i]]

\* the event published twice
Publish_twice(ev) ==
  /\ published' = Append(Append(published, ev), [ev EXCEPT !.seq = @ + 1])
  /\ subs' = pubsub_publish(pubsub_publish(subs, ev), [ev EXCEPT !.seq = @ + 1])

\* the call pubsub.publish(topic, payload) in a resolver
Publish(ev) ==
  /\ published' = Append(published, ev)
  /\ subs' = pubsub_publish(subs, ev)

\* an iterator that starts with the events published so far
asyncIterator_replay(topic, id) ==
  [topic |-> topic, id |-> id, active |-> TRUE,
   queue |-> SelectSeq(published, LAMBDA e : e.topic = topic),
   regAt |-> Len(published), cancelAt |-> 0]

\* pubsub.asyncIterator(topic), with the filter variable of withFilter
asyncIterator(topic, id) ==
  [topic |-> topic, id |-> id, active |-> TRUE, queue |-> <<>>,
   regAt |-> Len(published), cancelAt |-> 0]

---------------------------------------------------------------------------
(* Initial state: the server starts on a database that may already hold    *)
(* accounts                                                                *)

LocalRow(i, email) ==
  [id |-> i, email |-> email, social |-> "", password |-> encryptPassword("p"),
   name |-> "A", verified |-> "false"]

InitStores ==
  { <<>>,
    << LocalRow(1, "a@x.com") >>,
    << LocalRow(1, "a@x.com"),
       [id |-> 2, email |-> "", social |-> SocialKey(SOCIAL_NAME.FACEBOOK, "n1"),
        password |-> "", name |-> "A", verified |-> "false"] >> }

Init ==
  /\ accounts \in InitStores
  /\ inflight = {}
  /\ calls = {}
  /\ ncalls = 0
  /\ responses = <<>>
  /\ subs = <<>>
  /\ published = <<>>

---------------------------------------------------------------------------
(* Mutation.signUp                                                         *)

signUp(user) ==
  /\ ncalls < MaxCalls
  /\ ncalls' = ncalls + 1
  /\ LET c == ncalls + 1
         input == Input(user.email, "", 0, 0, user.name)
         signedIn == isSignedIn(user, Where(user.email, "", 0))
     IN IF signedIn
        THEN /\ responses' = Append(responses,
                   Response(c, "signUp", FALSE, ErrAlreadySignedIn, JsNull, NoToken, input))
             /\ UNCHANGED <<accounts, subs, published>>
        ELSE LET userToCreate == [id |-> 0, email |-> user.email, social |-> "",
                                  password |-> encryptPassword(user.password),
                                  name |-> user.name, verified |-> "false"]
                 created == User_create(accounts, userToCreate)
                 createdUser == created[Len(created)]
                 token == signIn(createdUser.id)
                 ev == Event(USER_ADDED, Payload("userAdded", JsRow(createdUser)), c)
             IN /\ accounts' = created
                /\ Publish(ev)
                /\ responses' = Append(responses,
                      Response(c, "signUp", TRUE, "", JsRow(createdUser), token, input))
  /\ UNCHANGED <<inflight, calls>>

---------------------------------------------------------------------------
(* Mutation.signInGoogle / Mutation.signInFacebook: the same body with     *)
(* SOCIAL_NAME.GOOGLE / SOCIAL_NAME.FACEBOOK                               *)

signInSocial(op, socialName, socialUser) ==
  /\ ncalls < MaxCalls
  /\ ncalls' = ncalls + 1
  /\ LET c == ncalls + 1
         key == SocialKey(socialName, socialUser.social)
         input == Input(socialUser.email, key, 0, 0, socialUser.name)
     IN IF TruthyStr(socialUser.email) /\ isSignedInBySocial(socialUser, socialName)
        THEN /\ responses' = Append(responses,
                   Response(c, op, FALSE, WrapError("Error", ErrAlreadySignedIn),
                            JsNull, NoToken, input))
             /\ UNCHANGED inflight
        ELSE \* getOrSignUp starts findOrCreate and goes on without its result
             LET user == getOrSignUp(socialUser, socialName)
             IN /\ inflight' = inflight \cup
                      {FindOrCreateOp(c, key, SocialDefaults(socialUser, socialName))}
                /\ IF ~Truthy(user)
                   THEN responses' = Append(responses,
                          Response(c, op, FALSE, WrapError("Error", ErrFailedToSignUp),
                                   JsNull, NoToken, input))
                   ELSE responses' = Append(responses,
                          Response(c, op, TRUE, "", user, signIn(PropId(user)), input))
  /\ UNCHANGED <<accounts, calls, subs, published>>

signInGoogle(socialUser) == signInSocial("signInGoogle", SOCIAL_NAME.GOOGLE, socialUser)

signInFacebook(socialUser) == signInSocial("signInFacebook", SOCIAL_NAME.FACEBOOK, socialUser)

\* the profile written over the account that has the key (an upsert)
User_upsert_run(o) ==
  /\ o.kind = "findOrCreate"
  /\ accounts' =
        IF \E i \in Ids : accounts[i].social = o.key
        THEN [i \in Ids |-> IF accounts[i].social = o.key
                            THEN [o.defaults EXCEPT !.id = i] ELSE accounts[i]]
        ELSE User_findOrCreate(accounts, o.key, o.defaults)
  /\ inflight' = inflight \ {o}
  /\ UNCHANGED <<calls, ncalls, responses, subs, published>>

\* the store carries out a findOrCreate that getOrSignUp started
User_findOrCreate_run(o) ==
  /\ o.kind = "findOrCreate"
  /\ accounts' = User_findOrCreate(accounts, o.key, o.defaults)
  /\ inflight' = inflight \ {o}
  /\ UNCHANGED <<calls, ncalls, responses, subs, published>>

---------------------------------------------------------------------------
(* Mutation.updateProfile (src/src/resolvers/user.ts)                      *)

\* getUser(): the account of the bearer, or null when nobody is signed in
getUser(caller) == IF caller = 0 THEN JsNull ELSE JsRow(accounts[caller])

Suspended(c, pc, user, result) == [call |-> c, pc |-> pc, user |-> user, result |-> result]

\* the update started before the bearer is looked at
updateProfile_update_first(caller, user) ==
  /\ ncalls < MaxCalls
  /\ ncalls' = ncalls + 1
  /\ LET c == ncalls + 1
         auth == getUser(caller)
         input == Input("", "", caller, user.id, user.name)
     IN /\ inflight' = inflight \cup {UpdateOp(c, user.id, [user |-> user])}
        /\ IF ~Truthy(auth)
           THEN /\ responses' = Append(responses,
                      Response(c, "updateProfile", FALSE,
                               WrapError("TypeError", ErrTypeError),
                               JsNull, NoToken, input))
                /\ UNCHANGED calls
           ELSE IF PropId(auth) # user.id
           THEN /\ responses' = Append(responses,
                      Response(c, "updateProfile", FALSE,
                               WrapError("AuthenticationError", ErrOwnProfile),
                               JsNull, NoToken, input))
                /\ UNCHANGED calls
           ELSE /\ calls' = calls \cup {Suspended(c, "findOne", user, JsNull)}
                /\ UNCHANGED responses
  /\ UNCHANGED <<accounts, subs, published>>

updateProfile(caller, user) ==
  /\ ncalls < MaxCalls
  /\ ncalls' = ncalls + 1
  /\ LET c == ncalls + 1
         auth == getUser(caller)
         input == Input("", "", caller, user.id, user.name)
     IN IF ~Truthy(auth)
        THEN \* auth.id throws a TypeError, the catch rethrows it wrapped
             /\ responses' = Append(responses,
                   Response(c, "updateProfile", FALSE, WrapError("TypeError", ErrTypeError),
                            JsNull, NoToken, input))
             /\ UNCHANGED <<inflight, calls>>
        ELSE IF PropId(auth) # user.id
        THEN /\ responses' = Append(responses,
                   Response(c, "updateProfile", FALSE,
                            WrapError("AuthenticationError", ErrOwnProfile),
                            JsNull, NoToken, input))
             /\ UNCHANGED <<inflight, calls>>
        ELSE \* models.User.update(args, ...) is started and not awaited;
             \* the handler suspends at await models.User.findOne(...)
             /\ inflight' = inflight \cup {UpdateOp(c, user.id, [user |-> user])}
             /\ calls' = calls \cup {Suspended(c, "findOne", user, JsNull)}
             /\ UNCHANGED responses
  /\ UNCHANGED <<accounts, subs, published>>

\* the store carries out the update that updateProfile started
User_update_run(o) ==
  /\ o.kind = "update"
  /\ accounts' = User_update(accounts, o.values, o.id)
  /\ inflight' = inflight \ {o}
  /\ UNCHANGED <<calls, ncalls, responses, subs, published>>

\* the store answers the awaited findOne({where: {id}})
updateProfile_findOne(k) ==
  /\ k.pc = "findOne"
  /\ calls' = (calls \ {k}) \cup
        {Suspended(k.call, "publish", k.user, Await(User_findOne(Where("*", "", k.user.id))))}
  /\ UNCHANGED <<accounts, inflight, ncalls, responses, subs, published>>

\* pubsub.publish(USER_UPDATED, { user }); return user
updateProfile_publish(k) ==
  /\ k.pc = "publish"
  /\ LET ev == Event(USER_UPDATED, Payload("user", k.result), k.call)
     IN /\ Publish(ev)
        /\ responses' = Append(responses,
              Response(k.call, "updateProfile", TRUE, "", k.result, NoToken,
                       Input("", "", k.user.id, k.user.id, k.user.name)))
  /\ calls' = calls \ {k}
  /\ UNCHANGED <<accounts, inflight, ncalls>>

---------------------------------------------------------------------------
(* Mutation.updateProfile of the copy built on udpateUser                  *)
(* (src/unnamed/part_002)                                                  *)

\* isValidUser: signedInUser.id === user.id
isValidUser(signedInUser, user) == PropId(signedInUser) = user.id

updateProfile_udpateUser(caller, user) ==
  /\ ncalls < MaxCalls
  /\ ncalls' = ncalls + 1
  /\ LET c == ncalls + 1
         signedInUser == getUser(caller)
         input == Input("", "", caller, user.id, user.name)
     IN IF ~Truthy(signedInUser)
        THEN /\ responses' = Append(responses,
                   Response(c, "updateProfile_udpateUser", FALSE,
                            WrapError("TypeError", ErrTypeError), JsNull, NoToken, input))
             /\ UNCHANGED calls
        ELSE IF ~isValidUser(signedInUser, user)
        THEN /\ responses' = Append(responses,
                   Response(c, "updateProfile_udpateUser", FALSE,
                            WrapError("AuthenticationError", ErrOwnProfile),
                            JsNull, NoToken, input))
             /\ UNCHANGED calls
        ELSE \* the handler suspends at await udpateUser({ User }, id, args)
             /\ calls' = calls \cup {Suspended(c, "udpateUser", user, JsNull)}
             /\ UNCHANGED responses
  /\ UNCHANGED <<accounts, inflight, subs, published>>

\* udpateUser: User.update(userData, {where: {id}}), awaited; userData is args
udpateUser(k) ==
  /\ k.pc = "udpateUser"
  /\ accounts' = User_update(accounts, [user |-> k.user], k.user.id)
  /\ calls' = (calls \ {k}) \cup
        {Suspended(k.call, "publishUpdated", k.user, JsCount(AffectedCount(accounts, k.user.id)))}
  /\ UNCHANGED <<inflight, ncalls, responses, subs, published>>

\* pubsub.publish(USER_UPDATED, { updatedUser }); return updatedUser
updateProfile_udpateUser_publish(k) ==
  /\ k.pc = "publishUpdated"
  /\ LET ev == Event(USER_UPDATED, Payload("updatedUser", k.result), k.call)
     IN /\ Publish(ev)
        /\ responses' = Append(responses,
              Response(k.call, "updateProfile_udpateUser", TRUE, "", k.result, NoToken,
                       Input("", "", k.user.id, k.user.id, k.user.name)))
  /\ calls' = calls \ {k}
  /\ UNCHANGED <<accounts, inflight, ncalls>>

---------------------------------------------------------------------------
(* Query.users (src/src/resolvers/user.ts)                                 *)

\* User.findAll(): every row
User_findAll == JsRows(accounts)

\* the query without the check of the bearer
users_open(caller) ==
  /\ ncalls < MaxCalls
  /\ ncalls' = ncalls + 1
  /\ calls' = calls \cup {Suspended(ncalls + 1, "findAll", getUser(caller), JsNull)}
  /\ UNCHANGED <<accounts, inflight, responses, subs, published>>

users(caller) ==
  /\ ncalls < MaxCalls
  /\ ncalls' = ncalls + 1
  /\ LET c == ncalls + 1
         user == getUser(caller)
     IN IF ~Truthy(user)
        THEN \* throw new AuthenticationError('User is not logged in')
             /\ responses' = Append(responses,
                   Response(c, "users", FALSE, ErrNotLoggedIn, JsNull, NoToken,
                            Input("", "", caller, 0, "")))
             /\ UNCHANGED calls
        ELSE \* return models.User.findAll(): the query is sent to the store
             /\ calls' = calls \cup {Suspended(c, "findAll", user, JsNull)}
             /\ UNCHANGED responses
  /\ UNCHANGED <<accounts, inflight, subs, published>>

\* the store answers findAll and the query returns the rows
users_findAll(k) ==
  /\ k.pc = "findAll"
  /\ responses' = Append(responses,
        Response(k.call, "users", TRUE, "", User_findAll, NoToken,
                 Input("", "", PropId(k.user), 0, "")))
  /\ calls' = calls \ {k}
  /\ UNCHANGED <<accounts, inflight, ncalls, subs, published>>

---------------------------------------------------------------------------
(* Subscription.userAdded / Subscription.userUpdated                       *)

userAdded_subscribe ==
  /\ Len(subs) < MaxSubs
  /\ subs' = Append(subs, asyncIterator(USER_ADDED, 0))
  /\ UNCHANGED <<accounts, inflight, calls, ncalls, responses, published>>

userUpdated_subscribe(id) ==
  /\ Len(subs) < MaxSubs
  /\ subs' = Append(subs, asyncIterator(USER_UPDATED, id))
  /\ UNCHANGED <<accounts, inflight, calls, ncalls, responses, published>>

\* the client cancels: the iterator's return() drops the registration
unsubscribe(i) ==
  /\ subs[i].active
  /\ subs' = [subs EXCEPT ![i].active = FALSE, ![i].cancelAt = Len(published)]
  /\ UNCHANGED <<accounts, inflight, calls, ncalls, responses, published>>

---------------------------------------------------------------------------

Next ==
  \/ \E user \in SignUpInputs : signUp(user)
  \/ \E socialUser \in SocialInputs : signInGoogle(socialUser)
  \/ \E socialUser \in SocialInputs : signInFacebook(socialUser)
  \/ \E o \in inflight : User_findOrCreate_run(o)
  \/ \E caller \in {0} \cup Ids : \E user \in Patches(Ids) : updateProfile(caller, user)
  \/ \E o \in inflight : User_update_run(o)
  \/ \E k \in calls : updateProfile_findOne(k)
  \/ \E k \in calls : updateProfile_publish(k)
  \/ \E caller \in {0} \cup Ids : \E user \in Patches(Ids) : updateProfile_udpateUser(caller, user)
  \/ \E k \in calls : udpateUser(k)
  \/ \E k \in calls : updateProfile_udpateUser_publish(k)
  \/ \E caller \in {0} \cup Ids : users(caller)
  \/ \E k \in calls : users_findAll(k)
  \/ userAdded_subscribe
  \/ \E id \in Ids : userUpdated_subscribe(id)
  \/ \E i \in 1..Len(subs) : unsubscribe(i)

Spec == Init /\ [][Next]_vars

TypeOK ==
  /\ ncalls \in 0..MaxCalls
  /\ Len(responses) <= ncalls
  /\ Len(subs) <= MaxSubs
  /\ \A i \in Ids : accounts[i].id = i

---------------------------------------------------------------------------
(* The older copy of the resolver in src/unnamed/part_002 (lines 330-596): *)
(* its signUp and signInFacebook await the store, the rest of it is as in  *)
(* src/src/resolvers/user.ts                                               *)

\* (the responses of these handlers carry the input as the store stands when
\* the handler finishes)

ErrAlreadySignedUp == "Email for current user is already signed up."

\* Mutation.signUp, up to await models.User.findOne
signUp_args(user) ==
  /\ ncalls < MaxCalls
  /\ ncalls' = ncalls + 1
  /\ calls' = calls \cup {Suspended(ncalls + 1, "signUp_findOne", user, JsNull)}
  /\ UNCHANGED <<accounts, inflight, responses, subs, published>>

\* the store answers findOne({where: {email}})
signUp_args_findOne(k) ==
  /\ k.pc = "signUp_findOne"
  /\ LET emailUser == Await(User_findOne(Where(k.user.email, "", 0)))
         input == Input(k.user.email, "", 0, 0, k.user.name)
     IN IF Truthy(emailUser)
        THEN /\ responses' = Append(responses,
                   Response(k.call, "signUp_args", FALSE, ErrAlreadySignedUp,
                            JsNull, NoToken, input))
             /\ calls' = calls \ {k}
        ELSE \* encryptPassword, then the handler suspends at await create
             /\ calls' = (calls \ {k}) \cup
                   {Suspended(k.call, "signUp_create", k.user, JsNull)}
             /\ UNCHANGED responses
  /\ UNCHANGED <<accounts, inflight, ncalls, subs, published>>

\* the store carries out create(args.user): the input with the password
\* replaced by its hash; verified is not among the values
signUp_args_create(k) ==
  /\ k.pc = "signUp_create"
  /\ LET values == [id |-> 0, email |-> k.user.email, social |-> "",
                    password |-> encryptPassword(k.user.password),
                    name |-> k.user.name, verified |-> NoRow.verified]
         created == User_create(accounts, values)
     IN /\ accounts' = created
        /\ calls' = (calls \ {k}) \cup
              {Suspended(k.call, "signUp_publish", k.user, JsRow(created[Len(created)]))}
  /\ UNCHANGED <<inflight, ncalls, responses, subs, published>>

\* jwt.sign, pubsub.publish(USER_ADDED, { userAdded: user }), return
signUp_args_publish(k) ==
  /\ k.pc = "signUp_publish"
  /\ LET user == k.result
         token == signIn(PropId(user))
         ev == Event(USER_ADDED, Payload("userAdded", user), k.call)
     IN /\ Publish(ev)
        /\ responses' = Append(responses,
              Response(k.call, "signUp_args", TRUE, "", user, token,
                       Input(k.user.email, "", 0, 0, k.user.name)))
  /\ calls' = calls \ {k}
  /\ UNCHANGED <<accounts, inflight, ncalls>>

\* Mutation.signInFacebook, up to its first await
signInFacebook_args(socialUser) ==
  /\ ncalls < MaxCalls
  /\ ncalls' = ncalls + 1
  /\ calls' = calls \cup
        {Suspended(ncalls + 1,
                   IF TruthyStr(socialUser.email) THEN "facebook_findOne"
                   ELSE "facebook_findOrCreate",
                   socialUser, JsNull)}
  /\ UNCHANGED <<accounts, inflight, responses, subs, published>>

\* the store answers findOne({where: {email, social: {$notLike: 'facebook%'}}})
signInFacebook_args_findOne(k) ==
  /\ k.pc = "facebook_findOne"
  /\ LET emailUser == Await(User_findOne(Where(k.user.email, SOCIAL_NAME.FACEBOOK, 0)))
         input == Input(k.user.email, SocialKey(SOCIAL_NAME.FACEBOOK, k.user.social),
                        0, 0, k.user.name)
     IN IF Truthy(emailUser)
        THEN /\ responses' = Append(responses,
                   Response(k.call, "signInFacebook_args", FALSE,
                            WrapError("Error", ErrAlreadySignedIn), JsNull, NoToken, input))
             /\ calls' = calls \ {k}
        ELSE /\ calls' = (calls \ {k}) \cup
                   {Suspended(k.call, "facebook_findOrCreate", k.user, JsNull)}
             /\ UNCHANGED responses
  /\ UNCHANGED <<accounts, inflight, ncalls, subs, published>>

\* signInFacebook publishing the account it resolved
signInFacebook_args_pubsub_publishes(k, user) ==
  Publish(Event(USER_ADDED, Payload("userAdded", user), k.call))

\* what signInFacebook does with the pubsub of its context: nothing
signInFacebook_args_pubsub(k, user) ==
  UNCHANGED <<subs, published>>

\* the store carries out the awaited findOrCreate; the handler signs a token
\* for user[0].id and returns { token, user: user[0] } (nothing else is
\* touched between the store's answer and the return)
signInFacebook_args_findOrCreate(k) ==
  /\ k.pc = "facebook_findOrCreate"
  /\ LET key == SocialKey(SOCIAL_NAME.FACEBOOK, k.user.social)
         after == User_findOrCreate(accounts, key, SocialDefaults(k.user, SOCIAL_NAME.FACEBOOK))
         row == CHOOSE r \in {after[i] : i \in 1..Len(after)} : r.social = key
         user == JsPair(row, Len(after) > Len(accounts))
         token == signIn(PropId(Index0(user)))
     IN /\ accounts' = after
        /\ responses' = Append(responses,
              Response(k.call, "signInFacebook_args", TRUE, "", Index0(user), token,
                       Input(k.user.email, key, 0, 0, k.user.name)))
        /\ signInFacebook_args_pubsub(k, Index0(user))
  /\ calls' = calls \ {k}
  /\ UNCHANGED <<inflight, ncalls>>

NextPart002 ==
  \/ \E user \in SignUpInputs : signUp_args(user)
  \/ \E k \in calls : signUp_args_findOne(k)
  \/ \E k \in calls : signUp_args_create(k)
  \/ \E k \in calls : signUp_args_publish(k)
  \/ \E socialUser \in SocialInputs : signInFacebook_args(socialUser)
  \/ \E k \in calls : signInFacebook_args_findOne(k)
  \/ \E k \in calls : signInFacebook_args_findOrCreate(k)

---------------------------------------------------------------------------
(* Failures of the collaborators                                           *)

ErrPublishFailed == "publish failed"

\* pubsub.publish throws inside the try of updateProfile: the catch rethrows
\* it wrapped, nothing is published
updateProfile_publish_throws(k) ==
  /\ k.pc \in {"publish", "publishUpdated"}
  /\ responses' = Append(responses,
        Response(k.call,
                 IF k.pc = "publish" THEN "updateProfile" ELSE "updateProfile_udpateUser",
                 FALSE, WrapError("Error", ErrPublishFailed), JsNull, NoToken,
                 Input("", "", k.user.id, k.user.id, k.user.name)))
  /\ calls' = calls \ {k}
  /\ UNCHANGED <<accounts, inflight, ncalls, subs, published>>

ErrStoreUnavailable == "StoreUnavailable"

\* the store fails a call that the resolver did not await: the promise is
\* rejected and nobody handles it
User_rejects(o) ==
  /\ o.kind \in {"update", "findOrCreate"}
  /\ inflight' = (inflight \ {o}) \cup {[o EXCEPT !.kind = "rejected"]}
  /\ UNCHANGED <<accounts, calls, ncalls, responses, subs, published>>

\* the store fails the findOne or the update that updateProfile awaits inside
\* its try: the catch rethrows the error wrapped in a new Error
updateProfile_store_rejects(k) ==
  /\ k.pc \in {"findOne", "udpateUser"}
  /\ responses' = Append(responses,
        Response(k.call,
                 IF k.pc = "findOne" THEN "updateProfile" ELSE "updateProfile_udpateUser",
                 FALSE, WrapError("Error", ErrStoreUnavailable), JsNull, NoToken,
                 Input("", "", k.user.id, k.user.id, k.user.name)))
  /\ calls' = calls \ {k}
  /\ UNCHANGED <<accounts, inflight, ncalls, subs, published>>

NextFailures ==
  \/ \E k \in calls : updateProfile_publish_throws(k)
  \/ \E o \in inflight : User_rejects(o)
  \/ \E k \in calls : updateProfile_store_rejects(k)

\* social sign-ins that present an identity with a changed profile
NextRenamed ==
  \/ \E socialUser \in SocialInputsRenamed : signInFacebook(socialUser)
  \/ \E socialUser \in SocialInputsRenamed : signInFacebook_args(socialUser)

NextAll == Next \/ NextPart002 \/ NextFailures \/ NextRenamed

SpecAll == Init /\ [][NextAll]_vars

---------------------------------------------------------------------------
(* Properties                                                              *)

Resp == {responses[i] : i \in 1..Len(responses)}
Pub == {published[i] : i \in 1..Len(published)}
SocialOps == {"signInGoogle", "signInFacebook"}
UpdateOps == {"updateProfile", "updateProfile_udpateUser"}
ProviderOf(op) == IF op = "signInGoogle" THEN SOCIAL_NAME.GOOGLE ELSE SOCIAL_NAME.FACEBOOK
WithKey(key) == {i \in Ids : accounts[i].social = key}
WithEmail(email) == {i \in Ids : accounts[i].email = email}

\* the response added by this step, if the step finished an invocation
Finishes(r) == /\ Len(responses') = Len(responses) + 1
               /\ r = responses'[Len(responses')]

\* C1: a signUp whose email no stored account holds succeeds (non-empty token,
\* the returned account has that email and is stored), and a signUp whose email
\* is held fails with 'already signed in'.
C1_SignUpSucceedsOnce ==
  \A r \in Resp : r.op = "signUp" =>
     IF r.input.emailHeld
     THEN ~r.ok /\ r.err = ErrAlreadySignedIn
     ELSE /\ r.ok
          /\ r.token # NoToken
          /\ r.ret.row.email = r.input.email
          /\ r.ret.row.id \in WithEmail(r.input.email)

\* C2: social sign-ins presenting the same provider and native id (and no
\* email that could be claimed) are all returned the one account that has
\* the social key, and the store holds exactly one such account once the
\* store calls have finished.
C2_OneAccountSameId ==
  /\ \A r \in Resp : (r.op \in SocialOps /\ r.input.email = "") =>
        /\ r.ok
        /\ r.ret.row.social = r.input.key
        /\ \A q \in Resp : (q.op = r.op /\ q.input.key = r.input.key /\ q.input.email = "")
              => q.ret.row.id = r.ret.row.id
  /\ (inflight = {} =>
        \A r \in Resp : (r.op \in SocialOps /\ r.input.email = "") =>
           Cardinality(WithKey(r.input.key)) = 1)

\* the account that makes a social sign-in's email "already claimed": one with
\* that email and no social key of the provider
ClaimedByOther(r) ==
  /\ r.op \in SocialOps
  /\ r.input.email # ""
  /\ \E k \in r.input.heldBy : ~Like(k, ProviderOf(r.op))

C4_OwnerPatchObservable ==
  \A r \in Resp : (r.op \in UpdateOps /\ r.input.caller # 0) =>
     IF r.input.caller = r.input.target
     THEN /\ r.ok
          /\ FindOneNow(Where("*", "", r.input.target)).row.name = r.input.name
     ELSE /\ ~r.ok
          /\ r.err = WrapError("AuthenticationError", ErrOwnProfile)

\* the account an account-updated event is about: the target of the call
\* that published it
AboutId(e) == (CHOOSE r \in Resp : r.call = e.call).input.target

\* the account-updated events published for the account a subscription
\* filters on, while it was registered, in publish order
EventsFor(sub) ==
  SelectSeq(published,
            LAMBDA e : /\ e.topic = USER_UPDATED
                       /\ AboutId(e) = sub.id
                       /\ e.seq > sub.regAt
                       /\ (sub.active \/ e.seq <= sub.cancelAt))

\* C5: a subscription on userUpdated with filter id X has received exactly the
\* account-updated events published for X while it was registered, in publish
\* order.
C5_ReceivesExactlyInOrder ==
  \A i \in 1..Len(subs) :
     subs[i].topic = USER_UPDATED => subs[i].queue = EventsFor(subs[i])

C7_PersistBeforePublish ==
  \A e \in Pub : e.topic = USER_UPDATED =>
     /\ ~\E o \in inflight : o.kind = "update" /\ o.call = e.call
     /\ \E r \in Resp : /\ r.call = e.call
                         /\ r.ret = e.payload.body
                         /\ r.ret.t = "row"
                         /\ r.ret.row.id = r.input.target
                         /\ r.ret.row.name = r.input.name

EventsOf(c) == {i \in 1..Len(published) : published[i].call = c}

\* C8: a successful signUp has published exactly one USER_ADDED event, a
\* successful updateProfile exactly one USER_UPDATED event, a failed one none;
\* no other event of these calls exists.
C8_OneEventPerSuccess ==
  /\ \A r \in Resp : r.op \in ({"signUp"} \cup UpdateOps) =>
        Cardinality(EventsOf(r.call)) = (IF r.ok THEN 1 ELSE 0)
  /\ \A e \in Pub : \E r \in Resp :
        /\ r.call = e.call
        /\ r.ok
        /\ e.topic = (IF r.op = "signUp" THEN USER_ADDED ELSE USER_UPDATED)

C8_Witness ==
  /\ \E r \in Resp : r.op \in UpdateOps /\ r.ok /\ Cardinality(EventsOf(r.call)) = 1
  /\ \E r \in Resp : r.op \in ({"signUp"} \cup UpdateOps) /\ ~r.ok

\* C9: a google sign-in with native id n returns a token and the account with
\* social key 'google_n'; a later one with the same native id returns the
\* same account id, and only one account has the key.
C9_SecondReturnsSameId ==
  \A i \in 1..Len(responses) :
     LET r == responses[i]
     IN (r.op = "signInGoogle" /\ r.input.email = "") =>
           /\ r.ok
           /\ r.token # NoToken
           /\ r.token.userId = r.ret.row.id
           /\ r.ret.row.social = r.input.key
           /\ Cardinality(WithKey(r.input.key)) <= 1
           /\ \A j \in 1..(i - 1) :
                 (responses[j].op = "signInGoogle" /\ responses[j].input.key = r.input.key)
                    => responses[j].ret.row.id = r.ret.row.id

---------------------------------------------------------------------------
(* Properties checked with the handlers of the older copy (SpecAll)        *)

SignUpOps == {"signUp", "signUp_args"}
SocialOpsAll == SocialOps \cup {"signInFacebook_args"}

\* C11: a successful signUp or social sign-in returns a token for the id of
\* the account it returns, a stored account, with role User; a failed one
\* returns no token.
C11_TokenEncodesAccount ==
  \A r \in Resp : r.op \in (SignUpOps \cup SocialOpsAll) =>
     IF r.ok
     THEN /\ r.ret.t = "row"
          /\ r.ret.row.id \in Ids
          /\ r.token = [userId |-> r.ret.row.id, role |-> "User"]
     ELSE r.token = NoToken

C11_Witness ==
  /\ \E r \in Resp : r.op \in SocialOpsAll /\ r.ok /\ r.token.userId = r.ret.row.id
                      /\ r.ret.row.id > 1
  /\ \E r \in Resp : r.op \in (SignUpOps \cup SocialOpsAll) /\ ~r.ok

\* C12: when publishing the account-updated event failed after updateProfile
\* wrote the patch, a read of the account shows the patched name.
C12_PatchSurvivesPublishFailure ==
  \A r \in Resp :
     (r.op \in UpdateOps /\ r.err = WrapError("Error", ErrPublishFailed)) =>
        FindOneNow(Where("*", "", r.input.target)).row.name = r.input.name

\* C13: no event on any topic was published by a signInGoogle or
\* signInFacebook call, successful or not; every account-created event was
\* published by a signUp call.
C13_SocialNeverPublishes ==
  \A e \in Pub : \A r \in Resp : r.call = e.call =>
     /\ r.op \notin SocialOpsAll
     /\ (e.topic = USER_ADDED => r.op \in SignUpOps)

C13_Witness ==
  /\ \E r \in Resp : r.op \in SocialOpsAll /\ r.ok
  /\ \E e \in Pub : e.topic = USER_ADDED

\* C14: once the store has carried out the find-or-create of a social sign-in
\* (one without an email), the sign-in has failed with 'Failed to sign up.'
\* exactly when no account has the social key, and has succeeded when one has.
C14_SignUpFailedIffDegenerate ==
  \A r \in Resp :
     (/\ r.op \in SocialOps
      /\ r.input.email = ""
      /\ ~\E o \in inflight : o.call = r.call) =>
        /\ (r.err = WrapError("Error", ErrFailedToSignUp)) <=> (WithKey(r.input.key) = {})
        /\ (WithKey(r.input.key) # {}) => r.ok

\* the accounts differ from before the step at most in the given fields of
\* the account with the given id
Frame(id, fields) ==
  /\ Len(accounts') = Len(accounts)
  /\ \A i \in Ids : \A f \in DOMAIN accounts[i] :
        accounts'[i][f] # accounts[i][f] => (i = id /\ f \in fields)

\* C15: the store write of an updateProfile call changes only fields present
\* in the patch, of the target account only; the other steps of the call
\* change no account.
C15_OnlyPatchedFields ==
  [][/\ \A o \in inflight : (o.kind = "update" /\ o \notin inflight')
           => Frame(o.id, DOMAIN o.values.user)
     /\ \A k \in calls : (k.pc = "udpateUser" /\ k \notin calls')
           => Frame(k.user.id, DOMAIN k.user)
     /\ \A r \in {responses'[i] : i \in 1..Len(responses')} :
           (Finishes(r) /\ r.op \in UpdateOps) => accounts' = accounts]_vars

\* an update of an account that has an email and a password has been carried out
C15_Witness ==
  \E r \in Resp : /\ r.op = "updateProfile_udpateUser"
                   /\ r.ok
                   /\ accounts[r.input.target].email # ""
                   /\ accounts[r.input.target].password # ""

\* C16: a find-or-create carried out when an account already has the social
\* key changes no account, and a step that finishes a social sign-in changes
\* no account that existed before it: the profile is written on creation only.
C16_SeededOnCreationOnly ==
  [][/\ \A o \in inflight :
           (o.kind = "findOrCreate" /\ o \notin inflight' /\ WithKey(o.key) # {})
              => accounts' = accounts
     /\ \A k \in calls :
           (/\ k.pc = "facebook_findOrCreate"
            /\ k \notin calls'
            /\ WithKey(SocialKey(SOCIAL_NAME.FACEBOOK, k.user.social)) # {})
              => accounts' = accounts
     /\ \A r \in {responses'[i] : i \in 1..Len(responses')} :
           (Finishes(r) /\ r.op \in SocialOpsAll)
              => \A i \in Ids : accounts'[i] = accounts[i]]_vars

\* a sign-in with a changed profile has been carried out on an account that
\* still has the profile it was created with
C16_Witness ==
  /\ \E r \in Resp : /\ r.op = "signInFacebook"
                      /\ r.input.name = "B"
                      /\ ~\E o \in inflight : o.call = r.call
                      /\ \E i \in WithKey(r.input.key) : accounts[i].name = "A"
  /\ \E r \in Resp : /\ r.op = "signInFacebook_args"
                      /\ r.ok
                      /\ r.input.name = "B"
                      /\ r.ret.row.name = "A"

\* C17: a call one of whose store operations failed with StoreUnavailable has
\* failed with that very error, returned no token and published no event.
C17_StoreErrorPropagated ==
  /\ \A o \in inflight : o.kind = "rejected" =>
        \A r \in Resp : r.call = o.call =>
           /\ ~r.ok
           /\ r.err = ErrStoreUnavailable
           /\ r.token = NoToken
           /\ EventsOf(r.call) = {}
  /\ \A r \in Resp : r.err = WrapError("Error", ErrStoreUnavailable) =>
        r.err = ErrStoreUnavailable

\* C18: the payload of an account-created event holds neither the hash of
\* the account's password nor the password.
C18_NoPasswordInPayload ==
  \A e \in Pub : e.topic = USER_ADDED => e.payload.body.row.password = ""

\* the verified value of a row, as a JavaScript condition reads it
Verified(r) == r.verified \notin {"false", ""}

\* C19: an account created by signUp with a non-empty email is verified; an
\* account created by a social sign-in is verified exactly when its profile
\* carried an email.
C19_VerifiedIffEmail ==
  [][Len(accounts') = Len(accounts) + 1 =>
       LET new == accounts'[Len(accounts')]
       IN IF new.social = ""
          THEN new.email # "" => Verified(new)
          ELSE Verified(new) <=> (new.email # "")]_vars

\* the account-created events published while the subscription was registered
AddedWhileRegistered(sub) ==
  SelectSeq(published,
            LAMBDA e : /\ e.topic = USER_ADDED
                       /\ e.seq > sub.regAt
                       /\ (sub.active \/ e.seq <= sub.cancelAt))

---------------------------------------------------------------------------
(* Properties of invocations without a signed-in user                      *)

\* C21: an updateProfile invoked when nobody is signed in fails, and it has
\* started no store write, published no event and left every account as it
\* was.
C21_NotSignedInNoWrite ==
  [][\A r \in {responses'[i] : i \in 1..Len(responses')} :
        (Finishes(r) /\ r.op \in UpdateOps /\ r.input.caller = 0) =>
           /\ ~r.ok
           /\ accounts' = accounts
           /\ published' = published
           /\ subs' = subs
           /\ inflight' = inflight
           /\ \A k \in calls' : k.call # r.call
           /\ \A o \in inflight' : o.call # r.call]_vars

\* both updateProfile handlers have refused an invocation without a bearer
\* whose target is a stored account
C21_Witness ==
  \A op \in UpdateOps :
     \E r \in Resp : /\ r.op = op
                     /\ r.input.caller = 0
                     /\ r.input.target \in Ids
                     /\ ~r.ok

\* C22: the users query returns the list of accounts only to a signed-in
\* user; without one it fails with 'User is not logged in' and has sent no
\* read to the store.
C22_UsersRequiresSignedIn ==
  [][\A r \in {responses'[i] : i \in 1..Len(responses')} :
        (Finishes(r) /\ r.op = "users") =>
           IF r.input.caller = 0
           THEN /\ ~r.ok
                /\ r.err = ErrNotLoggedIn
                /\ calls' = calls
                /\ inflight' = inflight
                /\ \A k \in calls' : k.call # r.call
           ELSE /\ r.ok
                /\ r.input.caller \in Ids
                /\ r.ret = JsRows(accounts)]_vars

\* the query has been refused without a signed-in user and has returned the
\* stored accounts to a signed-in one
C22_Witness ==
  /\ \E r \in Resp : r.op = "users" /\ r.input.caller = 0 /\ ~r.ok
  /\ \E r \in Resp : /\ r.op = "users"
                     /\ r.input.caller \in Ids
                     /\ r.ok
                     /\ r.ret.n > 0

====
